---- MODULE Spec2Model ----
(***************************************************************************)
(* Model of the motioncam burst pipeline: ImageProcessor::process (both    *)
(* overloads), prepareHdr / registerImage2, the temporal fuse loop and the *)
(* normalisation of ImageProcessor::denoise, and estimateDenoiseWeights.   *)
(***************************************************************************)
EXTENDS Integers, Sequences, FiniteSets, TLC

\* ---------------------------------------------------------------- bounds
MaxFrames == 3

\* largest signal level tried, in units of 0.00005
MaxSignal == 1100
\* largest number of companion frames in the pixel-level denoise
MaxCompanions == 2

\* longest payload handed to WriteCompressedFile
MaxData == 4
\* ZSTD_CStreamInSize(), ZSTD_DStreamInSize() and ZSTD_DStreamOutSize(), scaled
\* down: payload bytes per input chunk, file units per read, bytes per output
\* buffer
CStreamInSize == 2
DStreamInSize == 2
DStreamOutSize == 2

\* largest spatialDenoiseLevel a container's settings carry
MaxLevel == 7

\* largest sensor width and height handed to loadRawImage
MaxSensor == 132

\* largest number of ordered frames and of buffers asked of GetNearestBuffers
MaxOrdered == 4
MaxBuffers == 3

\* ------------------------------------------------------- program constants
\* the edge extension pads to a multiple of 2^EXTEND_EDGE_AMOUNT
EXTEND_EDGE_AMOUNT == 6
\* number of levels of the wavelet pyramid
WAVELET_LEVELS == 4
\* the fixed output range of the normalised planes
EXPANDED_RANGE == 16384
\* float minDiff = 1e5f, in units of 0.00005
InitialMinDiff == 2000000000
\* const int ALIGN_PYRAMID_LEVELS = 5
ALIGN_PYRAMID_LEVELS == 5
\* MAX_HDR_ERROR = 0.0001f, kept as the rational 1 / MAX_HDR_ERROR_INV
MAX_HDR_ERROR_INV == 10000
\* cv::Rect(32, 32, cols - 64, rows - 64)
HDR_CROP_MARGIN == 32
\* width and height of the padded half-resolution planes of the capture
PlaneSize == 164

\* -------------------------------------------------------------- helpers
Unset == 0 - 1

Min2(a, b) == IF a < b THEN a ELSE b
Max2(a, b) == IF a > b THEN a ELSE b

Range(s) == {s[i] : i \in 1..Len(s)}

\* the sequence s without its elements equal to x
RECURSIVE Without(_, _)
Without(s, x) ==
    IF s = <<>> THEN <<>>
    ELSE IF Head(s) = x THEN Without(Tail(s), x)
         ELSE <<Head(s)>> \o Without(Tail(s), x)

\* exposure values a frame's metadata can evaluate to (calcEv), in whole stops
EvSet == {5, 6, 7}

VARIABLES
    overload,            \* which process overload the caller invoked
    isHdr,               \* rawContainer.isHdr()
    frameEv,             \* frame name -> calcEv of its metadata
    frameOk,             \* frame name -> loadFrame returns a buffer
    asShotZero,          \* the capture's as-shot white balance vector is all zero
    containerSettings,   \* rawContainer.getPostProcessSettings()
    frames,              \* rawContainer.getFrames(), in container order
    pc,                  \* position inside process
    calls,               \* listener callbacks made so far, in order
    stages,              \* pipeline stages executed so far, in order
    files,               \* files written so far
    loaded,              \* frames whose sensor data is loaded and not released
    underexposedImages,  \* the local vector of loaded underexposed frames
    scanFrames,          \* the frame list the underexposed loop iterates over
    referenceFrame,      \* name of the reference frame (0: none yet)
    settings,            \* the local PostProcessSettings copy
    hdrIn,               \* what prepareHdr saw: registration result and ghost map
    hdrMetadata,         \* "unset" | "null" | "layer"
    processFrames,       \* denoise: the frame list the fuse loop iterates over
    it,                  \* denoise: position of the fuse loop in processFrames
    numImages,           \* ImageProgressHelper::mNumImages
    curImage,            \* ImageProgressHelper::mCurImage
    fused,               \* frames handed to the fusion kernel, in order
    normalisation,       \* "none" | "reference" | "average"
    useHdr,              \* the flag handed to the postprocess kernel
    exc,                 \* the exception that left process ("" when none)
    \* ---- estimateDenoiseWeights
    signalLevel,         \* the argument, in units of 0.00005
    minDiff,             \* smallest distance seen so far, same units
    w,                   \* index of the chosen row (0-based, as in the code)
    wi,                  \* loop index i
    weights,             \* the returned row, <<>> until the call returns
    \* ---- denoise: the accumulator and its normalisation, one pixel per channel
    denoiseOverload,     \* "container" | "buffers"
    companions,          \* number of companion frames / buffers
    blackLevel,          \* channel -> black level
    whiteLevel,          \* white level
    referencePlane,      \* channel -> reference->rawBuffer value
    fuseOutput,          \* channel -> accumulated sum of the fusion kernel
    kernelCalls,         \* number of fusion kernel invocations
    denoiseInput,        \* channel -> normalised value, <<>> until computed
    dpc,                 \* position inside denoise
    \* ---- WriteCompressedFile / ReadCompressedFile
    data,                \* the payload given to WriteCompressedFile
    file,                \* the compressed file, as a sequence of frame units
    pos,                 \* WriteCompressedFile: offset of the next chunk
    lastChunk,           \* WriteCompressedFile: the last chunk was submitted
    filePos,             \* ReadCompressedFile: units of the file read so far
    eof,                 \* ifstream eofbit
    fail,                \* ifstream failbit
    inputBuffer,         \* units read and not yet consumed by the decoder
    pending,             \* decoded bytes the decoder has not flushed yet
    buffOut,             \* the output buffer, DStreamOutSize bytes
    output,              \* the vector ReadCompressedFile appends to
    err,                 \* last return value of ZSTD_decompressStream
    zpc,                 \* position inside the write/read round trip
    \* ---- denoise (container overload): the parameters it derives
    referenceEv,         \* calcEv of the reference frame, in quarter stops
    spatialDenoiseLevel, \* getPostProcessSettings().spatialDenoiseLevel
    denoiseEv,           \* int ev of denoise
    patchSize,           \* int patchSize
    noisePatchSize,      \* the patchSize argument measureNoise received
    signalAverage,       \* mean signal / white level, in units of 0.00005
    method,              \* the fusion kernel chosen
    flowPatch,           \* <<patch size, patch stride>> set on the optical flow
    weightRow,           \* 0-based row of WEIGHTS the weights were taken from
    spatialWeights,      \* the weights handed to inverse_transform
    normalisedNoise,     \* noiseSigma / (1e-5f + mean(ll)), in units of 0.00005
    ppc,                 \* position inside denoise
    \* ---- loadRawImage
    sensorWidth,         \* rawBuffer.width
    sensorHeight,        \* rawBuffer.height
    extendEdges,         \* the extendEdges argument
    extendX,             \* int extendX
    extendY,             \* int extendY
    rawBufferSize,       \* <<width, height>> of rawData->rawBuffer
    deinterleaveOffset,  \* <<x, y>> offsets handed to deinterleave_raw
    wavelet,             \* <<width, height>> of each buffer of createWaveletBuffers
    outputBufferSize,    \* <<width, height>> of the inverse transform's outputBuffer
    cropOffset,          \* <<offsetX, offsetY>> computed by process
    rawImage,            \* BuildRawImage: crop origin and size of the returned image
    outputWindow,        \* postProcess: origin and size of the rendered window
    lpc,                 \* position inside loadRawImage and the steps after it
    \* ---- GetNearestBuffers
    orderedFrames,       \* orderedFrames.size()
    startIdx,            \* the startIdx argument
    numBuffers,          \* the numBuffers argument
    leftOffset,          \* int leftOffset
    rightOffset,         \* int rightOffset
    outNearestBuffers,   \* the entries pushed, as <<index, buffer or "null">>
    npc                  \* position inside GetNearestBuffers

inputVars == <<overload, isHdr, frameEv, frameOk, asShotZero, containerSettings>>
hdrVars == <<hdrIn, hdrMetadata>>
fuseVars == <<processFrames, it, numImages, curImage, fused, normalisation>>
jobVars == <<inputVars, frames, pc, calls, stages, files, loaded, underexposedImages,
             scanFrames, referenceFrame, settings, hdrVars, fuseVars, useHdr, exc>>
weightVars == <<signalLevel, minDiff, w, wi, weights>>
planeVars == <<denoiseOverload, companions, blackLevel, whiteLevel, referencePlane,
               fuseOutput, kernelCalls, denoiseInput, dpc>>
zipVars == <<data, file, pos, lastChunk, filePos, eof, fail, inputBuffer, pending,
             buffOut, output, err, zpc>>
paramVars == <<referenceEv, spatialDenoiseLevel, denoiseEv, patchSize, noisePatchSize,
               signalAverage, method, flowPatch, weightRow, spatialWeights,
               normalisedNoise, ppc>>
loadVars == <<sensorWidth, sensorHeight, extendEdges, extendX, extendY, rawBufferSize,
              deinterleaveOffset, wavelet, outputBufferSize, cropOffset, rawImage,
              outputWindow, lpc>>
nearVars == <<orderedFrames, startIdx, numBuffers, leftOffset, rightOffset,
              outNearestBuffers, npc>>
auxVars == <<weightVars, planeVars, zipVars, paramVars, loadVars, nearVars>>
exceptWeights == <<jobVars, planeVars, zipVars, paramVars, loadVars, nearVars>>
exceptPlanes == <<jobVars, weightVars, zipVars, paramVars, loadVars, nearVars>>
exceptZip == <<jobVars, weightVars, planeVars, paramVars, loadVars, nearVars>>
exceptParams == <<jobVars, weightVars, planeVars, zipVars, loadVars, nearVars>>
exceptLoad == <<jobVars, weightVars, planeVars, zipVars, paramVars, nearVars>>
exceptNear == <<jobVars, weightVars, planeVars, zipVars, paramVars, loadVars>>
vars == <<jobVars, weightVars, planeVars, zipVars, paramVars, loadVars, nearVars>>

\* ------------------------------------------------------------ the inputs
\* PostProcessSettings fields that process reads; Unset is the negative sentinel
SettingsAll ==
    [shadows : {Unset, 4}, blacks : {Unset, 1}, whitePoint : {Unset, 9},
     temperature : {Unset, 5000}, tint : {Unset, 10}, dng : BOOLEAN]

DefaultSettings ==
    {s \in SettingsAll : /\ s.shadows = Unset /\ s.blacks = Unset
                         /\ s.whitePoint = Unset
                         /\ s.temperature = Unset /\ s.tint = Unset}

\* a container of n frames named 1..n, in container order
NameSeq(n) == [i \in 1..n |-> i]

\* bursts of every length and exposure mix, default settings
InitBurst ==
    /\ \E n \in 0..MaxFrames :
          /\ frames = NameSeq(n)
          /\ frameEv \in [1..n -> EvSet]
          /\ frameOk \in [1..n -> BOOLEAN]
    /\ asShotZero = FALSE
    /\ containerSettings \in DefaultSettings

\* every combination of settings and white balance, on a short burst
InitSettings ==
    /\ \E n \in 1..2 :
          /\ frames = NameSeq(n)
          /\ frameEv = [i \in 1..n |-> IF i = 2 THEN 7 ELSE 5]
          /\ frameOk = [i \in 1..n |-> TRUE]
    /\ asShotZero \in BOOLEAN
    /\ containerSettings \in SettingsAll

\* no call of estimateDenoiseWeights in progress
WeightsIdle ==
    /\ signalLevel = 0
    /\ minDiff = 0
    /\ w = 0
    /\ wi = 0
    /\ weights = <<>>

\* no pixel-level denoise in progress
PlanesIdle ==
    /\ denoiseOverload = "none"
    /\ companions = 0
    /\ blackLevel = <<>>
    /\ whiteLevel = 0
    /\ referencePlane = <<>>
    /\ fuseOutput = <<>>
    /\ kernelCalls = 0
    /\ denoiseInput = <<>>
    /\ dpc = "idle"

\* no compressed file being written or read
ZipIdle ==
    /\ data = <<>>
    /\ file = <<>>
    /\ pos = 0
    /\ lastChunk = FALSE
    /\ filePos = 0
    /\ eof = FALSE
    /\ fail = FALSE
    /\ inputBuffer = <<>>
    /\ pending = <<>>
    /\ buffOut = <<>>
    /\ output = <<>>
    /\ err = 0
    /\ zpc = "idle"

\* no parameter derivation of denoise in progress
ParamsIdle ==
    /\ referenceEv = 0
    /\ spatialDenoiseLevel = 0
    /\ denoiseEv = 0
    /\ patchSize = 0
    /\ noisePatchSize = 0
    /\ signalAverage = 0
    /\ method = "none"
    /\ flowPatch = <<>>
    /\ weightRow = Unset
    /\ spatialWeights = <<>>
    /\ normalisedNoise = Unset
    /\ ppc = "idle"

\* no loadRawImage call in progress
LoadIdle ==
    /\ sensorWidth = 0
    /\ sensorHeight = 0
    /\ extendEdges = FALSE
    /\ extendX = 0
    /\ extendY = 0
    /\ rawBufferSize = <<>>
    /\ deinterleaveOffset = <<>>
    /\ wavelet = <<>>
    /\ outputBufferSize = <<>>
    /\ cropOffset = <<>>
    /\ rawImage = <<>>
    /\ outputWindow = <<>>
    /\ lpc = "idle"

\* no GetNearestBuffers call in progress
NearIdle ==
    /\ orderedFrames = 0
    /\ startIdx = 0
    /\ numBuffers = 0
    /\ leftOffset = 0
    /\ rightOffset = 0
    /\ outNearestBuffers = <<>>
    /\ npc = "idle"

\* no job in progress
JobIdle ==
    /\ overload = "none"
    /\ isHdr = FALSE
    /\ frameEv = <<>>
    /\ frameOk = <<>>
    /\ asShotZero = FALSE
    /\ containerSettings = [shadows |-> Unset, blacks |-> Unset, whitePoint |-> Unset,
                            temperature |-> Unset, tint |-> Unset, dng |-> FALSE]
    /\ frames = <<>>
    /\ pc = "idle"
    /\ calls = <<>>
    /\ stages = <<>>
    /\ files = {}
    /\ loaded = {}
    /\ underexposedImages = <<>>
    /\ scanFrames = <<>>
    /\ referenceFrame = 0
    /\ settings = containerSettings
    /\ hdrIn = [solverOk |-> TRUE, registration |-> "none", interior |-> 0, border |-> 0]
    /\ hdrMetadata = "unset"
    /\ processFrames = <<>>
    /\ it = 1
    /\ numImages = 0
    /\ curImage = 0
    /\ fused = <<>>
    /\ normalisation = "none"
    /\ useHdr = FALSE
    /\ exc = ""

Init ==
    /\ WeightsIdle
    /\ PlanesIdle
    /\ ZipIdle
    /\ ParamsIdle
    /\ LoadIdle
    /\ NearIdle
    /\ overload \in {"path", "container"}
    /\ isHdr \in BOOLEAN
    /\ (InitBurst \/ InitSettings)
    /\ pc = "call"
    /\ calls = <<>>
    /\ stages = <<>>
    /\ files = {}
    /\ loaded = {}
    /\ underexposedImages = <<>>
    /\ scanFrames = <<>>
    /\ referenceFrame = 0
    /\ settings = containerSettings
    /\ hdrIn = [solverOk |-> TRUE, registration |-> "none", interior |-> 0, border |-> 0]
    /\ hdrMetadata = "unset"
    /\ processFrames = <<>>
    /\ it = 1
    /\ numImages = 0
    /\ curImage = 0
    /\ fused = <<>>
    /\ normalisation = "none"
    /\ useHdr = FALSE
    /\ exc = ""

\* ------------------------------------------------------ listener callbacks
onProgressUpdate(p) == <<"onProgressUpdate", p>>
onPreviewSaved == <<"onPreviewSaved", 0>>
onError == <<"onError", 0>>
onCompleted == <<"onCompleted", 0>>

\* ----------------------------------------------------------- RawContainer
\* loadFrame(name): a buffer, or null when the frame cannot be loaded
loadFrame(name) == IF frameOk[name] THEN name ELSE 0

\* removeFrame(name)
removeFrame(fs, name) == Without(fs, name)

\* getMinEv: the minimum of calcEv over the frames of the container
getMinEv(fs) ==
    IF fs = <<>> THEN 100000
    ELSE CHOOSE m \in {frameEv[f] : f \in Range(fs)} :
            \A f \in Range(fs) : m <= frameEv[f]

\* mutant: HDR preparation is placed after denoise
pipeline_HdrAfterDenoise == <<"denoise", "hdr", "dng", "postProcess", "save">>

\* the order of the sections of process after the preview is saved
pipeline == <<"hdr", "denoise", "dng", "postProcess", "save">>

\* the section that follows section p
stepAfter(p) ==
    pipeline[(CHOOSE i \in 1..(Len(pipeline) - 1) : pipeline[i] = p) + 1]

\* ------------------------------------------------------ process, path overload
\* process(inputPath, ...): opens the container, reports an empty one
ProcessPath ==
    /\ pc = "call"
    /\ overload = "path"
    /\ IF frames = <<>>
       THEN /\ calls' = Append(calls, onError)
            /\ pc' = "returned"
       ELSE /\ pc' = "entry"
            /\ UNCHANGED calls
    /\ UNCHANGED <<auxVars, inputVars, frames, stages, files, loaded, underexposedImages,
                   scanFrames, referenceFrame, settings, hdrVars, fuseVars, useHdr, exc>>

\* ------------------------------------------------- process, container overload
\* entry: onProgressUpdate(0), then the underexposed scan of an HDR container
ProcessEntry ==
    /\ \/ pc = "entry"
       \/ pc = "call" /\ overload = "container"
    /\ calls' = Append(calls, onProgressUpdate(0))
    /\ scanFrames' = IF isHdr THEN frames ELSE <<>>
    /\ pc' = IF isHdr THEN "scan" ELSE "loadReference"
    /\ UNCHANGED <<auxVars, inputVars, frames, stages, files, loaded, underexposedImages,
                   referenceFrame, settings, hdrVars, fuseVars, useHdr, exc>>

\* ev - refEv > 1.0f
IsUnderexposed(ev, refEv) == ev - refEv > 1

\* one iteration of the loop over rawContainer.getFrames(): an underexposed
\* frame is loaded, kept in underexposedImages and removed from the container
RemoveUnderexposed ==
    /\ pc = "scan"
    /\ IF scanFrames = <<>>
       THEN /\ pc' = "loadReference"
            /\ UNCHANGED <<frames, loaded, underexposedImages, scanFrames>>
       ELSE LET frameName == Head(scanFrames)
                refEv == getMinEv(NameSeq(Len(frameEv)))
                raw == loadFrame(frameName)
            IN  /\ scanFrames' = Tail(scanFrames)
                /\ pc' = "scan"
                /\ IF IsUnderexposed(frameEv[frameName], refEv) /\ raw # 0
                   THEN /\ underexposedImages' = Append(underexposedImages, raw)
                        /\ loaded' = loaded \cup {raw}
                        /\ frames' = removeFrame(frames, frameName)
                   ELSE UNCHANGED <<frames, loaded, underexposedImages>>
    /\ UNCHANGED <<auxVars, inputVars, calls, stages, files, referenceFrame, settings,
                   hdrVars, fuseVars, useHdr, exc>>

\* mutant: the null check on the loaded reference is missing
referenceUsable_NoNullCheck(fs) == fs # <<>>

\* process goes on only with a first remaining frame that loads
referenceUsable(fs) == fs # <<>> /\ loadFrame(Head(fs)) # 0

\* load the reference: the first remaining frame
LoadReference ==
    /\ pc = "loadReference"
    /\ IF ~referenceUsable(frames)
       THEN /\ calls' = calls \o <<onError, onCompleted>>
            /\ pc' = "returned"
            /\ UNCHANGED <<frames, loaded, referenceFrame, stages>>
       ELSE /\ referenceFrame' = Head(frames)
            /\ loaded' = loaded \cup {Head(frames)}
            /\ frames' = removeFrame(frames, Head(frames))
            /\ stages' = Append(stages, "loadReference")
            /\ pc' = "estimate"
            /\ UNCHANGED calls
    /\ UNCHANGED <<auxVars, inputVars, files, underexposedImages, scanFrames, settings,
                   hdrVars, fuseVars, useHdr, exc>>

\* ----------------------------------------------------- colour matrices
\* createSrgbMatrix, as-shot overload: throws on an all-zero vector
createSrgbMatrix(zero) == IF zero THEN "InvalidState" ELSE "ok"

\* the overload postProcess, createPreview and prepareHdr pick:
\* the Temperature overload never looks at the as-shot vector
selectSrgbMatrix(s, zero) ==
    IF s.temperature > 0 \/ s.tint > 0 THEN "ok" ELSE createSrgbMatrix(zero)

\* createPreview(rawBuffer, 2, cameraMetadata, settings)
createPreview(s, zero) == selectSrgbMatrix(s, zero)

\* calcHistogram always uses the as-shot overload
calcHistogram(zero) == createSrgbMatrix(zero)

\* estimateBlackWhitePoint renders a preview with a copy of the settings
estimateBlackWhitePoint(s, zero) ==
    createPreview([s EXCEPT !.blacks = 0, !.whitePoint = 1], zero)

\* values the estimators return for the reference frame
EstimatedShadows == {2}
EstimatedBlacks == {0}
EstimatedWhitePoint == {8}

\* an exception leaves process: the locals are destroyed on the way out
Throw(e) ==
    /\ pc' = "threw"
    /\ exc' = e
    /\ loaded' = {}

\* settings = container settings; shadows, blacks and white point estimated
EstimateSettings ==
    /\ pc = "estimate"
    /\ LET h == IF settings.shadows < 0 THEN calcHistogram(asShotZero) ELSE "ok"
           needBw == settings.blacks < 0 \/ settings.whitePoint < 0
       IN  IF h # "ok"
           THEN Throw(h) /\ UNCHANGED <<settings, stages>>
           ELSE \E sh \in EstimatedShadows, bp \in EstimatedBlacks,
                   wp \in EstimatedWhitePoint :
                  LET s1 == IF settings.shadows < 0
                            THEN [settings EXCEPT !.shadows = sh] ELSE settings
                      e == IF needBw THEN estimateBlackWhitePoint(s1, asShotZero)
                           ELSE "ok"
                  IN  IF e # "ok"
                      THEN Throw(e) /\ UNCHANGED <<settings, stages>>
                      ELSE /\ settings' = IF needBw
                                          THEN [s1 EXCEPT !.blacks = bp, !.whitePoint = wp]
                                          ELSE s1
                           /\ stages' = Append(stages, "estimate")
                           /\ pc' = "preview"
                           /\ UNCHANGED <<exc, loaded>>
    /\ UNCHANGED <<auxVars, inputVars, frames, calls, files, underexposedImages, scanFrames,
                   referenceFrame, hdrVars, fuseVars, useHdr>>

\* render the preview, write PREVIEW_<name>, tell the listener
SavePreview ==
    /\ pc = "preview"
    /\ LET r == createPreview(settings, asShotZero)
       IN  IF r # "ok"
           THEN Throw(r) /\ UNCHANGED <<files, calls, stages>>
           ELSE /\ files' = files \cup {"preview"}
                /\ calls' = Append(calls, onPreviewSaved)
                /\ stages' = Append(stages, "preview")
                /\ pc' = pipeline[1]
                /\ UNCHANGED <<exc, loaded>>
    /\ UNCHANGED <<auxVars, inputVars, frames, underexposedImages, scanFrames,
                   referenceFrame, settings, hdrVars, fuseVars, useHdr>>

\* ------------------------------------------------------------------ HDR
\* registerImage2: findTransformECC on pyramid levels size-1 .. 1; solver[i]
\* is FALSE when the solver throws cv::Exception at level i
RECURSIVE registerLevels(_, _)
registerLevels(solver, i) ==
    IF i <= 0 THEN "matrix"
    ELSE IF ~solver[i] THEN "empty"
         ELSE registerLevels(solver, i - 1)

registerImage2(solver) == registerLevels(solver, ALIGN_PYRAMID_LEVELS)

SolverOutcomes == [1..ALIGN_PYRAMID_LEVELS -> BOOLEAN]

\* ghost maps hdr_mask can produce, as the sums of the map over the interior
\* crop and over the 32-pixel border around it
GhostMaps == [interior : {0, 1, 2}, border : {0, 50}]

\* number of pixels of ghostMap(cv::Rect(32, 32, cols - 64, rows - 64))
TrimmedArea ==
    (PlaneSize - 2 * HDR_CROP_MARGIN) * (PlaneSize - 2 * HDR_CROP_MARGIN)

\* mutant: the mean is taken over the whole ghost map, border included
ErrorTooHigh_WholeMap(ghost) ==
    (ghost.interior + ghost.border) * MAX_HDR_ERROR_INV > PlaneSize * PlaneSize

\* error > MAX_HDR_ERROR, error = cv::mean(trimmedGhostMap)[0]
ErrorTooHigh(ghost) == ghost.interior * MAX_HDR_ERROR_INV > TrimmedArea

\* prepareHdr: "null", "layer", or the exception createSrgbMatrix throws
prepareHdr(s, registration, ghost, zero) ==
    IF registration = "empty" THEN "null"
    ELSE IF ErrorTooHigh(ghost) THEN "null"
    ELSE IF selectSrgbMatrix(s, zero) # "ok" THEN selectSrgbMatrix(s, zero)
    ELSE "layer"

\* prepareHdr on the first underexposed frame, then underexposedImages.clear()
PrepareHdr ==
    /\ pc = "hdr"
    /\ IF underexposedImages = <<>>
       THEN /\ pc' = stepAfter("hdr")
            /\ UNCHANGED <<hdrVars, stages, loaded, underexposedImages, exc>>
       ELSE \E solver \in SolverOutcomes, ghost \in GhostMaps :
              LET registration == registerImage2(solver)
                  ok == \A i \in 1..ALIGN_PYRAMID_LEVELS : solver[i]
                  seen == IF registration = "empty"
                          THEN [solverOk |-> ok, registration |-> "empty",
                                interior |-> 0, border |-> 0]
                          ELSE [solverOk |-> ok, registration |-> "matrix",
                                interior |-> ghost.interior, border |-> ghost.border]
                  r == prepareHdr(settings, registration, ghost, asShotZero)
              IN  /\ hdrIn' = seen
                  /\ stages' = Append(stages, "prepareHdr")
                  /\ underexposedImages' = <<>>
                  /\ IF r \in {"null", "layer"}
                     THEN /\ hdrMetadata' = r
                          /\ loaded' = loaded \ Range(underexposedImages)
                          /\ pc' = stepAfter("hdr")
                          /\ UNCHANGED exc
                     ELSE Throw(r) /\ UNCHANGED hdrMetadata
    /\ UNCHANGED <<auxVars, inputVars, frames, calls, files, scanFrames, referenceFrame,
                   settings, fuseVars, useHdr>>

\* -------------------------------------------------------------- denoise
nextFusedImage_OfHundred(n, cur) == (100 * cur) \div n

\* ImageProgressHelper::nextFusedImage: mStart + mPerImageIncrement * mCurImage
nextFusedImage(n, cur) == (75 * cur) \div n

\* ImageProgressHelper(listener, getFrames().size(), 0); processFrames = getFrames()
DenoiseBegin ==
    /\ pc = "denoise"
    /\ numImages' = Len(frames)
    /\ curImage' = 0
    /\ processFrames' = frames
    /\ it' = 1
    /\ stages' = Append(stages, "temporalFusion")
    /\ pc' = "fuse"
    /\ UNCHANGED <<auxVars, inputVars, frames, calls, files, loaded, underexposedImages,
                   scanFrames, referenceFrame, settings, hdrVars, fused,
                   normalisation, useHdr, exc>>

\* one iteration of the fuse loop up to nextFusedImage(): loadFrame is used
\* unchecked, so a null frame is dereferenced (undefined behaviour)
FuseFrame ==
    /\ pc = "fuse"
    /\ it <= Len(processFrames)
    /\ LET frame == loadFrame(processFrames[it])
       IN  IF frame = 0
           THEN \/ /\ pc' = "crashed"
                   /\ UNCHANGED <<loaded, fused, curImage, calls>>
                \/ /\ pc' = "fuseRelease"
                   /\ fused' = Append(fused, 0)
                   /\ curImage' = curImage + 1
                   /\ calls' = Append(calls,
                        onProgressUpdate(nextFusedImage(numImages, curImage + 1)))
                   /\ UNCHANGED loaded
           ELSE /\ loaded' = loaded \cup {frame}
                /\ fused' = Append(fused, frame)
                /\ curImage' = curImage + 1
                /\ calls' = Append(calls,
                     onProgressUpdate(nextFusedImage(numImages, curImage + 1)))
                /\ pc' = "fuseRelease"
    /\ UNCHANGED <<auxVars, inputVars, frames, stages, files, underexposedImages, scanFrames,
                   referenceFrame, settings, hdrVars, processFrames, it, numImages,
                   normalisation, useHdr, exc>>

\* frame->data->release(); ++it
FuseRelease ==
    /\ pc = "fuseRelease"
    /\ loaded' = loaded \ {processFrames[it]}
    /\ it' = it + 1
    /\ pc' = "fuse"
    /\ UNCHANGED <<auxVars, inputVars, frames, calls, stages, files, underexposedImages,
                   scanFrames, referenceFrame, settings, hdrVars, processFrames,
                   numImages, curImage, fused, normalisation, useHdr, exc>>

\* which normalisation the container overload of denoise applies
normalisationOf(n) == IF n <= 1 THEN "reference" ELSE "average"

\* after the loop: normalise, wavelet-denoise each channel, return to process,
\* which releases the reference data and reports denoiseCompleted()
DenoiseFinish ==
    /\ pc = "fuse"
    /\ it > Len(processFrames)
    /\ normalisation' = normalisationOf(Len(processFrames))
    /\ stages' = Append(stages, "waveletDenoise")
    /\ loaded' = loaded \ {referenceFrame}
    /\ calls' = Append(calls, onProgressUpdate(75))
    /\ pc' = stepAfter("denoise")
    /\ UNCHANGED <<auxVars, inputVars, frames, files, underexposedImages, scanFrames,
                   referenceFrame, settings, hdrVars, processFrames, it, numImages,
                   curImage, fused, useHdr, exc>>

\* ------------------------------------------------- DNG, post-process, save
\* how util::WriteDng can end: the DNG SDK reports stream failures by
\* throwing dng_exception (ThrowWriteFile, ThrowFileIsDamaged)
WriteDngOutcomes == {"ok", "runtime_error", "dng_exception"}

\* try { WriteDng } catch(std::runtime_error&) { }
CaughtByProcess(e) == e = "runtime_error"

WriteDng ==
    /\ pc = "dng"
    /\ IF ~containerSettings.dng
       THEN /\ pc' = stepAfter("dng")
            /\ UNCHANGED <<files, stages, exc, loaded>>
       ELSE \E r \in WriteDngOutcomes :
              /\ stages' = Append(stages, "writeDng")
              /\ IF r = "ok"
                 THEN /\ files' = files \cup {"dng"}
                      /\ pc' = stepAfter("dng")
                      /\ UNCHANGED <<exc, loaded>>
                 ELSE IF CaughtByProcess(r)
                 THEN /\ pc' = stepAfter("dng")
                      /\ UNCHANGED <<files, exc, loaded>>
                 ELSE Throw(r) /\ UNCHANGED files
    /\ UNCHANGED <<auxVars, inputVars, frames, calls, underexposedImages, scanFrames,
                   referenceFrame, settings, hdrVars, fuseVars, useHdr>>

\* mutant: HDR is used whenever prepareHdr was called
useHdrOf_WheneverPrepared(h) == h # "unset"

\* if(hdrMetadata) useHdr = true; else useHdr = false
useHdrOf(h) == h = "layer"

\* postProcess: colour matrix, HDR layer or the 32x32 dummy, render
PostProcess ==
    /\ pc = "postProcess"
    /\ LET r == selectSrgbMatrix(settings, asShotZero)
       IN  IF r # "ok"
           THEN Throw(r) /\ UNCHANGED <<useHdr, stages, calls>>
           ELSE /\ useHdr' = useHdrOf(hdrMetadata)
                /\ stages' = Append(stages, "postProcess")
                /\ calls' = Append(calls, onProgressUpdate(95))
                /\ pc' = stepAfter("postProcess")
                /\ UNCHANGED <<exc, loaded>>
    /\ UNCHANGED <<auxVars, inputVars, frames, files, underexposedImages, scanFrames,
                   referenceFrame, settings, hdrVars, fuseVars>>

\* cv::imwrite(outputPath), addExifMetadata, imageSaved()
SaveOutput ==
    /\ pc = "save"
    /\ files' = files \cup {"output"}
    /\ stages' = stages \o <<"writeOutput", "addExif">>
    /\ calls' = calls \o <<onProgressUpdate(100), onCompleted>>
    /\ pc' = "returned"
    /\ UNCHANGED <<auxVars, inputVars, frames, loaded, underexposedImages, scanFrames,
                   referenceFrame, settings, hdrVars, fuseVars, useHdr, exc>>

Next ==
    \/ ProcessPath
    \/ ProcessEntry
    \/ RemoveUnderexposed
    \/ LoadReference
    \/ EstimateSettings
    \/ SavePreview
    \/ PrepareHdr
    \/ DenoiseBegin
    \/ FuseFrame
    \/ FuseRelease
    \/ DenoiseFinish
    \/ WriteDng
    \/ PostProcess
    \/ SaveOutput

Spec == Init /\ [][Next]_vars

\* ======================================================================
\* Properties of process (specification Spec)
\* ======================================================================
Count(kind) == Cardinality({i \in 1..Len(calls) : calls[i][1] = kind})
StageRan(s) == s \in Range(stages)
Ended == {"returned", "threw", "crashed"}
BeforeReference == {"call", "entry", "scan", "loadReference"}

\* the frames the underexposed scan leaves in the container, from the inputs
AllNames == DOMAIN frameEv
TakenAsUnderexposed(f) ==
    /\ isHdr
    /\ frameOk[f]
    /\ \E g \in AllNames : frameEv[f] - frameEv[g] > 1
Remaining == {f \in AllNames : ~TakenAsUnderexposed(f)}
FirstRemaining == CHOOSE f \in Remaining : \A g \in Remaining : f <= g
NoUsableReference == Remaining = {} \/ ~frameOk[FirstRemaining]

\* C1: with no usable reference (no frame left, or the first remaining frame
\* does not load) process returns having called onError exactly once, written
\* no preview and no output, and run none of the pipeline stages.
C1_NoUsableReference ==
    (NoUsableReference /\ pc \notin BeforeReference) =>
        /\ pc = "returned"
        /\ Count("onError") = 1
        /\ files = {}
        /\ stages = <<>>

C1_Witness ==
    /\ pc = "returned"
    /\ overload = "container"
    /\ Remaining # {}
    /\ ~frameOk[FirstRemaining]
    /\ Count("onError") = 1

\* C2 (as claimed): a reference frame with an all-zero as-shot vector ends the
\* job with exactly one onError and neither preview nor output written.
C2_ZeroWhiteBalanceReported ==
    (asShotZero /\ referenceFrame # 0 /\ pc \in Ended) =>
        /\ Count("onError") = 1
        /\ "preview" \notin files
        /\ "output" \notin files

\* C3: when prepareHdr yields no layer the job goes on as SDR: onError is never
\* called, the kernel gets useHdr = FALSE, the null layer itself ends nothing
\* (the only exception after it is a DNG write failure), and a job that returns
\* has fused, denoised, post-processed, written the output and called onCompleted.
C3_HdrFallbackToSdr ==
    (hdrMetadata = "null") =>
        /\ Count("onError") = 0
        /\ useHdr = FALSE
        /\ pc = "threw" => exc = "dng_exception"
        /\ pc \in {"save", "returned"} => StageRan("postProcess")
        /\ pc = "returned" =>
              /\ StageRan("temporalFusion")
              /\ StageRan("waveletDenoise")
              /\ "output" \in files
              /\ calls[Len(calls)] = onCompleted

C3_Witness ==
    /\ hdrMetadata = "null"
    /\ hdrIn.registration = "empty"
    /\ pc = "returned"
    /\ "output" \in files
    /\ useHdr = FALSE

\* C4 (as claimed): an unloadable companion frame is skipped: the job does not
\* crash, nothing but loaded frames reaches the fusion kernel, and a finished
\* job has fused every loadable companion and written the output without onError.
C4_MissingFrameSkipped ==
    (\E i \in 1..Len(processFrames) : ~frameOk[processFrames[i]]) =>
        /\ pc # "crashed"
        /\ \A i \in 1..Len(fused) : fused[i] # 0
        /\ pc = "returned" =>
              /\ Range(fused) = {f \in Range(processFrames) : frameOk[f]}
              /\ "output" \in files
              /\ Count("onError") = 0

\* WriteDng was attempted and left no DNG file
DngWriteFailed == StageRan("writeDng") /\ "dng" \notin files

\* C5 (as claimed): a failed DNG write is caught inside process: no exception
\* leaves it, and the job that returns wrote the output, added EXIF and called
\* onCompleted but not onError.
C5_DngFailureCaught ==
    DngWriteFailed =>
        /\ pc # "threw"
        /\ pc = "returned" =>
              /\ "output" \in files
              /\ StageRan("addExif")
              /\ Count("onCompleted") = 1
              /\ Count("onError") = 0

\* C6 (as claimed): whenever process has returned, onCompleted was called
\* exactly once and is the last callback.
C6_CompletedOnceAndLast ==
    pc = "returned" =>
        /\ Count("onCompleted") = 1
        /\ calls[Len(calls)] = onCompleted

\* C7 (as claimed): at most the reference and one other frame are loaded at
\* any time, whatever the burst length and the number of underexposed frames.
C7_BoundedLoadedFrames == Cardinality(loaded) <= 2

\* C8: prepareHdr returns a layer only if every solver level succeeded
\* (registerImage2 returned a matrix) and the ghost map's mean over the
\* interior crop is at most MAX_HDR_ERROR; a solver exception at any level
\* gives an empty registration and no layer.
C8_HdrLayerOnlyIfAligned ==
    /\ hdrMetadata = "layer" =>
          /\ hdrIn.solverOk
          /\ hdrIn.registration = "matrix"
          /\ hdrIn.interior * MAX_HDR_ERROR_INV <=
               (PlaneSize - 2 * HDR_CROP_MARGIN) * (PlaneSize - 2 * HDR_CROP_MARGIN)
    /\ (StageRan("prepareHdr") /\ ~hdrIn.solverOk) =>
          /\ hdrIn.registration = "empty"
          /\ hdrMetadata # "layer"

C8_Witness ==
    /\ hdrMetadata = "layer"
    /\ hdrIn.interior = 1
    /\ hdrIn.border = 50

\* C11 (as claimed): every one of shadows, blacks and whitePoint that the
\* container's settings carry as non-negative has exactly that value in the
\* settings the preview and the final render are made with.
C11_SetFieldsKept ==
    StageRan("preview") =>
        \A field \in {"shadows", "blacks", "whitePoint"} :
            containerSettings[field] >= 0 =>
                settings[field] = containerSettings[field]

\* position of the first occurrence of stage s in the job's stage sequence
StagePos(s) == CHOOSE i \in 1..Len(stages) :
                  /\ stages[i] = s
                  /\ \A j \in 1..(i - 1) : stages[j] # s

\* when both stages ran, a ran first
StageBefore(a, b) == (StageRan(a) /\ StageRan(b)) => StagePos(a) < StagePos(b)

\* C14 (as claimed): the stages run in the order load reference, temporal
\* fusion, wavelet denoise, HDR preparation, post-process, DNG encoding.
C14_StageOrder ==
    /\ StageBefore("loadReference", "temporalFusion")
    /\ StageBefore("temporalFusion", "waveletDenoise")
    /\ StageBefore("waveletDenoise", "prepareHdr")
    /\ StageBefore("prepareHdr", "postProcess")
    /\ StageBefore("postProcess", "writeDng")

\* C14 (amended): the stages run in the order load reference, HDR
\* preparation, temporal fusion, wavelet denoise, DNG encoding, post-process,
\* output; each of these stages runs at most once.
C14_StageOrderAsCoded ==
    /\ StageBefore("loadReference", "prepareHdr")
    /\ StageBefore("loadReference", "temporalFusion")
    /\ StageBefore("prepareHdr", "temporalFusion")
    /\ StageBefore("temporalFusion", "waveletDenoise")
    /\ StageBefore("waveletDenoise", "writeDng")
    /\ StageBefore("waveletDenoise", "postProcess")
    /\ StageBefore("writeDng", "postProcess")
    /\ StageBefore("postProcess", "writeOutput")
    /\ \A i, j \in 1..Len(stages) : stages[i] = stages[j] => i = j

C14_Witness ==
    /\ pc = "returned"
    /\ StageRan("prepareHdr")
    /\ StageRan("waveletDenoise")
    /\ StageRan("writeDng")
    /\ StageRan("postProcess")
    /\ "output" \in files

\* the frame's EV exceeds the minimum EV of the container by more than 1
ClassifiedUnderexposed(f) ==
    /\ isHdr
    /\ \E g \in AllNames : IsUnderexposed(frameEv[f], frameEv[g])

\* the fuse loop has handed frame f to the fusion kernel
PassedToFusion(f) == \E i \in 1..Len(fused) : processFrames[i] = f

\* C15 (as claimed): in an HDR job no frame whose EV exceeds the minimum by
\* more than 1 becomes the reference or reaches the fusion kernel, and in a
\* finished job every other frame is the reference or was fused exactly once.
C15_UnderexposedExcluded ==
    /\ \A f \in AllNames :
          ClassifiedUnderexposed(f) => (f # referenceFrame /\ ~PassedToFusion(f))
    /\ (pc = "returned" /\ referenceFrame # 0) =>
          \A f \in AllNames :
             ~ClassifiedUnderexposed(f) =>
                 /\ (f = referenceFrame) # PassedToFusion(f)
                 /\ Cardinality({i \in 1..Len(fused) : processFrames[i] = f}) <= 1

\* ======================================================================
\* estimateDenoiseWeights (specification SpecWeights)
\* ======================================================================
\* WEIGHTS, in halves (the table holds 0.5)
WEIGHTS ==
    << <<24, 8, 4, 2>>,
       <<16, 8, 4, 2>>,
       <<12, 8, 2, 2>>,
       << 8, 4, 2, 0>>,
       << 4, 2, 1, 0>>,
       << 2, 2, 0, 0>> >>

\* SIGNAL_MAP = {0.0001, 0.0025, 0.005, 0.01, 0.03, 0.05}, in units of 0.00005
SIGNAL_MAP == <<2, 50, 100, 200, 600, 1000>>

Abs(x) == IF x < 0 THEN 0 - x ELSE x

\* mutant: a tie moves to the later entry
closer_OrEqual(diff, best) == diff <= best

\* if(diff < minDiff)
closer(diff, best) == diff < best

InitWeights ==
    /\ JobIdle
    /\ PlanesIdle
    /\ ZipIdle
    /\ ParamsIdle
    /\ LoadIdle
    /\ NearIdle
    /\ signalLevel \in 0..MaxSignal
    /\ minDiff = InitialMinDiff
    /\ w = Len(WEIGHTS) - 1
    /\ wi = 0
    /\ weights = <<>>

\* one iteration of for(int i = 0; i < WEIGHTS.size(); i++)
EstimateStep ==
    /\ weights = <<>>
    /\ wi < Len(WEIGHTS)
    /\ LET diff == Abs(signalLevel - SIGNAL_MAP[wi + 1])
       IN  IF closer(diff, minDiff)
           THEN minDiff' = diff /\ w' = wi
           ELSE UNCHANGED <<minDiff, w>>
    /\ wi' = wi + 1
    /\ UNCHANGED <<exceptWeights, signalLevel, weights>>

\* return WEIGHTS[w]
EstimateReturn ==
    /\ weights = <<>>
    /\ wi = Len(WEIGHTS)
    /\ weights' = WEIGHTS[w + 1]
    /\ UNCHANGED <<exceptWeights, signalLevel, minDiff, w, wi>>

NextWeights == EstimateStep \/ EstimateReturn

SpecWeights == InitWeights /\ [][NextWeights]_vars

\* the lowest 0-based index whose lookup entry is nearest to s
NearestRow(s) ==
    CHOOSE i \in 0..(Len(SIGNAL_MAP) - 1) :
        /\ \A j \in 0..(Len(SIGNAL_MAP) - 1) :
              Abs(s - SIGNAL_MAP[i + 1]) <= Abs(s - SIGNAL_MAP[j + 1])
        /\ \A j \in 0..(i - 1) :
              Abs(s - SIGNAL_MAP[j + 1]) > Abs(s - SIGNAL_MAP[i + 1])

\* C10: estimateDenoiseWeights returns the row of the nearest lookup entry,
\* ties to the lower index; below the lowest entry that is {12,4,2,1}, above
\* the highest entry it is {1,1,0,0}.
C10_NearestWeightRow ==
    weights # <<>> =>
        /\ weights = WEIGHTS[NearestRow(signalLevel) + 1]
        /\ signalLevel < SIGNAL_MAP[1] => weights = <<24, 8, 4, 2>>
        /\ signalLevel > SIGNAL_MAP[Len(SIGNAL_MAP)] => weights = <<2, 2, 0, 0>>

\* a tie between the entries 0.0001 and 0.0025 goes to the first row
C10_Witness ==
    /\ weights = <<24, 8, 4, 2>>
    /\ signalLevel = 26

\* ======================================================================
\* denoise: accumulator and normalisation (specification SpecDenoise)
\* ======================================================================
Channels == 0..3

\* raw sample values tried for the reference plane (10-bit sensor)
SampleValues == {0, 60, 64, 65, 100, 543, 1023, 1100}

\* one pixel per channel: the same sample in every channel, or a ramp
ReferencePlanes == {[c \in Channels |-> v + k * c] : v \in SampleValues, k \in {0, 1}}

BlackLevels ==
    {[c \in Channels |-> 0], [c \in Channels |-> 64], [c \in Channels |-> 64 + c]}

\* mutant: the + 0.5f rounding term is dropped
quantise_NoRounding(num, den) ==
    IF num <= 0 THEN 0 ELSE Min2((num * EXPANDED_RANGE) \div den, EXPANDED_RANGE)

\* static_cast<uint16_t>(max(0.0f, min(p * s + 0.5f, (float) EXPANDED_RANGE)))
\* for p = num / den0 and s = EXPANDED_RANGE / range, with den = den0 * range
quantise(num, den) ==
    LET twice == 2 * num * EXPANDED_RANGE + den
    IN  IF twice <= 0 THEN 0 ELSE Min2(twice \div (2 * den), EXPANDED_RANGE)

\* the branch the buffer-vector overload takes: if(buffers.empty())
buffersNormalisationOf(n) == IF n = 0 THEN "reference" ELSE "average"

InitDenoise ==
    /\ JobIdle
    /\ WeightsIdle
    /\ ZipIdle
    /\ ParamsIdle
    /\ LoadIdle
    /\ NearIdle
    /\ denoiseOverload \in {"container", "buffers"}
    /\ companions \in 0..MaxCompanions
    /\ blackLevel \in BlackLevels
    /\ whiteLevel = 1023
    /\ referencePlane \in ReferencePlanes
    /\ fuseOutput = [c \in Channels |-> 0]
    /\ kernelCalls = 0
    /\ denoiseInput = <<>>
    /\ dpc = "fuse"

\* one call of the fusion kernel: the accumulator grows by the aligned
\* companion, which the kernel takes from the reference or from a frame
\* brighter by d
FuseKernel ==
    /\ dpc = "fuse"
    /\ kernelCalls < companions
    /\ \E d \in {0, 8} :
          fuseOutput' = [c \in Channels |-> fuseOutput[c] + referencePlane[c] + d]
    /\ kernelCalls' = kernelCalls + 1
    /\ UNCHANGED <<exceptPlanes, denoiseOverload, companions, blackLevel,
                   whiteLevel, referencePlane, denoiseInput, dpc>>

\* denoiseInput.for_each_element(...) in the branch the overload picks
Normalise ==
    /\ dpc = "fuse"
    /\ kernelCalls = companions
    /\ LET branch == IF denoiseOverload = "container"
                     THEN normalisationOf(companions)
                     ELSE buffersNormalisationOf(companions)
       IN  denoiseInput' =
             [c \in Channels |->
                IF branch = "reference"
                THEN quantise(referencePlane[c] - blackLevel[c],
                              whiteLevel - blackLevel[c])
                ELSE quantise(fuseOutput[c] - companions * blackLevel[c],
                              companions * (whiteLevel - blackLevel[c]))]
    /\ dpc' = "done"
    /\ UNCHANGED <<exceptPlanes, denoiseOverload, companions, blackLevel,
                   whiteLevel, referencePlane, fuseOutput, kernelCalls>>

NextDenoise == FuseKernel \/ Normalise

SpecDenoise == InitDenoise /\ [][NextDenoise]_vars

\* k is clamp((ref - black) * EXPANDED_RANGE / (white - black) + 0.5,
\* 0, EXPANDED_RANGE) truncated to an integer
IsNormalisedReference(k, c) ==
    LET den == 2 * (whiteLevel - blackLevel[c])
        num == 2 * (referencePlane[c] - blackLevel[c]) * EXPANDED_RANGE
               + (whiteLevel - blackLevel[c])
    IN  \/ num <= 0 /\ k = 0
        \/ num >= EXPANDED_RANGE * den /\ k = EXPANDED_RANGE
        \/ /\ num > 0
           /\ num < EXPANDED_RANGE * den
           /\ k * den <= num
           /\ num < (k + 1) * den

\* C9: with no companion frames, in either overload, no fusion kernel runs and
\* every channel of the denoiser input is the normalised, rounded and clamped
\* reference value.
C9_ReferenceOnly ==
    (dpc = "done" /\ companions = 0) =>
        /\ kernelCalls = 0
        /\ \A c \in Channels : IsNormalisedReference(denoiseInput[c], c)

\* a value whose rounding term decides the result:
\* 100 * 16384 / 1023 = 1601.56.., stored as 1602
C9_Witness ==
    /\ dpc = "done"
    /\ companions = 0
    /\ denoiseOverload = "buffers"
    /\ kernelCalls = 0
    /\ referencePlane = [c \in Channels |-> 100]
    /\ blackLevel = [c \in Channels |-> 0]
    /\ denoiseInput = [c \in Channels |-> 1602]

\* k is clamp((fuseOutput / n - black) * EXPANDED_RANGE / (white - black) + 0.5,
\* 0, EXPANDED_RANGE) truncated to an integer, for n = companions
IsNormalisedAverage(k, c) ==
    LET den == 2 * companions * (whiteLevel - blackLevel[c])
        num == 2 * (fuseOutput[c] - companions * blackLevel[c]) * EXPANDED_RANGE
               + companions * (whiteLevel - blackLevel[c])
    IN  \/ num <= 0 /\ k = 0
        \/ num >= EXPANDED_RANGE * den /\ k = EXPANDED_RANGE
        \/ /\ num > 0
           /\ num < EXPANDED_RANGE * den
           /\ k * den <= num
           /\ num < (k + 1) * den

\* C13 (as claimed): with at least one companion fused, in either overload,
\* every channel of the denoiser input is the normalised average of the fused
\* sum over the number of companions.
C13_AverageWhenFused ==
    (dpc = "done" /\ companions >= 1) =>
        \A c \in Channels : IsNormalisedAverage(denoiseInput[c], c)

\* ======================================================================
\* WriteCompressedFile / ReadCompressedFile (specification SpecCompressed)
\* ======================================================================
Bytes == {0, 1}

\* every payload of at most n bytes
RECURSIVE Payloads(_)
Payloads(n) ==
    IF n = 0 THEN {<<>>}
    ELSE Payloads(n - 1) \cup
         {Append(d, b) : d \in {e \in Payloads(n - 1) : Len(e) = n - 1}, b \in Bytes}

\* one unit of a compressed frame: the frame header, a block, or the epilogue
Unit(kind, bytes) == [kind |-> kind, bytes |-> bytes]

\* ZSTD_compressStream2(ctx, &output, &input, mode): what the call appends to
\* the frame (the output buffer holds a whole compressed block)
compressStream2(started, chunk, end) ==
    (IF started THEN <<>> ELSE <<Unit("header", <<>>)>>)
    \o (IF chunk = <<>> THEN <<>> ELSE <<Unit("block", chunk)>>)
    \o (IF end THEN <<Unit("end", <<>>)>> ELSE <<>>)

\* ZSTD_decompressStream(ctx, &outputBuffer, &inputBuffer): flush what is
\* pending while the output buffer has room, else consume the next unit; the
\* result is 0 once the epilogue is consumed and everything is flushed
RECURSIVE decompressStream(_, _, _)
decompressStream(input, pend, out) ==
    IF pend # <<>>
    THEN IF Len(out) < DStreamOutSize
         THEN decompressStream(input, Tail(pend), Append(out, Head(pend)))
         ELSE [input |-> input, pending |-> pend, out |-> out, err |-> 1]
    ELSE IF input = <<>>
    THEN [input |-> input, pending |-> pend, out |-> out, err |-> 1]
    ELSE IF Head(input).kind = "end"
    THEN [input |-> Tail(input), pending |-> pend, out |-> out, err |-> 0]
    ELSE decompressStream(Tail(input), Head(input).bytes, out)

InitCompressed ==
    /\ JobIdle
    /\ WeightsIdle
    /\ PlanesIdle
    /\ ParamsIdle
    /\ LoadIdle
    /\ NearIdle
    /\ data \in Payloads(MaxData)
    /\ file = <<>>
    /\ pos = 0
    /\ lastChunk = FALSE
    /\ filePos = 0
    /\ eof = FALSE
    /\ fail = FALSE
    /\ inputBuffer = <<>>
    /\ pending = <<>>
    /\ buffOut = <<>>
    /\ output = <<>>
    /\ err = 0
    /\ zpc = "write"

\* WriteCompressedFile: one iteration of while(!lastChunk)
WriteChunk ==
    /\ zpc = "write"
    /\ ~lastChunk
    /\ LET last == pos + CStreamInSize >= Len(data)
           read == IF last THEN Len(data) - pos ELSE CStreamInSize
           chunk == SubSeq(data, pos + 1, pos + read)
       IN  /\ file' = file \o compressStream2(file # <<>>, chunk, last)
           /\ pos' = pos + read
           /\ lastChunk' = last
           /\ zpc' = IF last THEN "written" ELSE "write"
    /\ UNCHANGED <<exceptZip, data, filePos, eof, fail, inputBuffer, pending, buffOut,
                   output, err>>

\* ReadCompressedFile: open the stream, allocate the buffers, empty output
ReadOpen ==
    /\ zpc = "written"
    /\ filePos' = 0
    /\ eof' = FALSE
    /\ fail' = FALSE
    /\ buffOut' = [i \in 1..DStreamOutSize |-> 0]
    /\ output' = <<>>
    /\ err' = 0
    /\ zpc' = "loop"
    /\ UNCHANGED <<exceptZip, data, file, pos, lastChunk, inputBuffer, pending>>

\* file.read(buffIn, buffInSize); readBytes = file.gcount(): a short read
\* sets eofbit and failbit
FileRead ==
    /\ zpc = "loop"
    /\ ~eof \/ ~fail
    /\ LET avail == Len(file) - filePos
           readBytes == IF avail < DStreamInSize THEN avail ELSE DStreamInSize
       IN  /\ inputBuffer' = SubSeq(file, filePos + 1, filePos + readBytes)
           /\ filePos' = filePos + readBytes
           /\ eof' = (eof \/ readBytes < DStreamInSize)
           /\ fail' = (fail \/ readBytes < DStreamInSize)
           /\ zpc' = IF readBytes > 0 THEN "inner" ELSE "loop"
    /\ UNCHANGED <<exceptZip, data, file, pos, lastChunk, pending, buffOut, output, err>>

\* one iteration of while(inputBuffer.pos < inputBuffer.size): decompress,
\* then output.insert(output.end(), buffOut.begin(), buffOut.end())
DecompressStream ==
    /\ zpc = "inner"
    /\ inputBuffer # <<>>
    /\ LET r == decompressStream(inputBuffer, pending, <<>>)
           filled == r.out \o SubSeq(buffOut, Len(r.out) + 1, DStreamOutSize)
       IN  /\ inputBuffer' = r.input
           /\ pending' = r.pending
           /\ err' = r.err
           /\ buffOut' = filled
           /\ output' = output \o filled
           /\ zpc' = IF r.input = <<>> THEN "loop" ELSE "inner"
    /\ UNCHANGED <<exceptZip, data, file, pos, lastChunk, filePos, eof, fail>>

\* the read loop ends: if(err != 0) throw IOException, else return
ReadReturn ==
    /\ zpc = "loop"
    /\ eof /\ fail
    /\ zpc' = IF err # 0 THEN "threw" ELSE "done"
    /\ UNCHANGED <<exceptZip, data, file, pos, lastChunk, filePos, eof, fail,
                   inputBuffer, pending, buffOut, output, err>>

NextCompressed ==
    \/ WriteChunk
    \/ ReadOpen
    \/ FileRead
    \/ DecompressStream
    \/ ReadReturn

SpecCompressed == InitCompressed /\ [][NextCompressed]_vars

\* C12 (as claimed): reading back the file written for a payload returns
\* without an exception and the output vector holds exactly the payload.
C12_RoundTripExact ==
    zpc \in {"done", "threw"} => (zpc = "done" /\ output = data)

\* ======================================================================
\* denoise, container overload: derived parameters (specification SpecParams)
\* ======================================================================
\* reference EVs tried, in quarter stops: -1.5 .. 0.5 and 6.5 .. 9.0
EvQuarters == ((0 - 6)..2) \cup (26..36)

\* mean signal levels measureNoise can report, in units of 0.00005
SignalLevels == {0, 2, 26, 300, 600, 1000, MaxSignal}

\* normalised noise values the wavelet loop can compute, same units
NoiseLevels == {2, 100, 1000}

\* (int) x for x given in quarters: truncation toward zero
ToInt(q) == IF q >= 0 THEN q \div 4 ELSE 0 - ((0 - q) \div 4)

\* mutant: the EV is truncated without the 0.5f rounding term
denoiseEvOf_Truncated(q) == ToInt(q)

\* int ev = (int) (0.5f + calcEv(...))
denoiseEvOf(q) == ToInt(q + 2)

\* int patchSize = ev < 8 ? 16 : 8
patchSizeOf(e) == IF e < 8 THEN 16 ELSE 8

\* signalAverage < 0.02f: 7x7; < 0.04f: 5x5; else 3x3
methodOf(s) ==
    IF s < 400 THEN "fuse_denoise_7x7"
    ELSE IF s < 800 THEN "fuse_denoise_5x5"
    ELSE "fuse_denoise_3x3"

\* estimateDenoiseWeights as a function: the index w its loop ends with
RECURSIVE estimateLoop(_, _, _, _)
estimateLoop(s, i, best, row) ==
    IF i >= Len(WEIGHTS) THEN row
    ELSE LET diff == Abs(s - SIGNAL_MAP[i + 1])
         IN  IF closer(diff, best)
             THEN estimateLoop(s, i + 1, diff, i)
             ELSE estimateLoop(s, i + 1, best, row)

\* mutant: the loop starts at the second lookup entry
estimateDenoiseWeights_SkipFirst(s) ==
    estimateLoop(s, 1, InitialMinDiff, Len(WEIGHTS) - 1)

estimateDenoiseWeights(s) == estimateLoop(s, 0, InitialMinDiff, Len(WEIGHTS) - 1)

\* i = min(i, WEIGHTS.size() - 1); i = max(i, 0); WEIGHTS[WEIGHTS.size() - i]
chosenRow(level) == Len(WEIGHTS) - Max2(Min2(level, Len(WEIGHTS) - 1), 0)

InitParams ==
    /\ JobIdle
    /\ WeightsIdle
    /\ PlanesIdle
    /\ ZipIdle
    /\ LoadIdle
    /\ NearIdle
    /\ referenceEv \in EvQuarters
    /\ spatialDenoiseLevel \in Unset..MaxLevel
    /\ denoiseEv = 0
    /\ patchSize = 0
    /\ noisePatchSize = 0
    /\ signalAverage = 0
    /\ method = "none"
    /\ flowPatch = <<>>
    /\ weightRow = Unset
    /\ spatialWeights = <<>>
    /\ normalisedNoise = Unset
    /\ ppc = "measure"

\* ev, patchSize, measureNoise(..., patchSize), signalAverage, kernel choice
MeasureNoise ==
    /\ ppc = "measure"
    /\ denoiseEv' = denoiseEvOf(referenceEv)
    /\ patchSize' = patchSizeOf(denoiseEv')
    /\ noisePatchSize' = patchSize'
    /\ \E s \in SignalLevels :
          /\ signalAverage' = s
          /\ method' = methodOf(s)
    /\ ppc' = "flow"
    /\ UNCHANGED <<exceptParams, referenceEv, spatialDenoiseLevel, flowPatch, weightRow,
                   spatialWeights, normalisedNoise>>

\* fuse loop: opticalFlow->setPatchSize(patchSize); setPatchStride(patchSize/2)
OpticalFlowSetup ==
    /\ ppc = "flow"
    /\ flowPatch' = <<patchSize, patchSize \div 2>>
    /\ ppc' = "weights"
    /\ UNCHANGED <<exceptParams, referenceEv, spatialDenoiseLevel, denoiseEv, patchSize,
                   noisePatchSize, signalAverage, method, weightRow, spatialWeights,
                   normalisedNoise>>

\* the weights: auto (level < 0), off (level = 0), or the chosen row
SelectWeights ==
    /\ ppc = "weights"
    /\ IF spatialDenoiseLevel < 0
       THEN /\ weightRow' = estimateDenoiseWeights(signalAverage)
            /\ spatialWeights' = WEIGHTS[weightRow' + 1]
       ELSE IF spatialDenoiseLevel = 0
       THEN /\ weightRow' = Unset
            /\ spatialWeights' = <<0, 0, 0, 0>>
       ELSE /\ weightRow' = chosenRow(spatialDenoiseLevel)
            /\ spatialWeights' = WEIGHTS[weightRow' + 1]
    /\ ppc' = "wavelet"
    /\ UNCHANGED <<exceptParams, referenceEv, spatialDenoiseLevel, denoiseEv, patchSize,
                   noisePatchSize, signalAverage, method, flowPatch, normalisedNoise>>

\* wavelet loop: n = noiseSigma / (1e-5f + mean(ll)); inverse_transform with
\* the weights chosen before the loop
WaveletDenoise ==
    /\ ppc = "wavelet"
    /\ \E n \in NoiseLevels : normalisedNoise' = n
    /\ ppc' = "done"
    /\ UNCHANGED <<exceptParams, referenceEv, spatialDenoiseLevel, denoiseEv, patchSize,
                   noisePatchSize, signalAverage, method, flowPatch, weightRow,
                   spatialWeights>>

NextParams ==
    \/ MeasureNoise
    \/ OpticalFlowSetup
    \/ SelectWeights
    \/ WaveletDenoise

SpecParams == InitParams /\ [][NextParams]_vars

\* C16 (as claimed): in auto mode the weights are the table row whose lookup
\* entry is nearest to the normalised noise sigma / meanLowBand.
C16_AutoWeightsFromNoise ==
    (ppc = "done" /\ spatialDenoiseLevel < 0) =>
        spatialWeights = WEIGHTS[NearestRow(normalisedNoise) + 1]

\* C16 (amended): in auto mode the weights are the table row whose lookup
\* entry is nearest to signalAverage, the reference frame's mean measured
\* signal over the white level (ties to the earlier entry); the normalised
\* noise computed in the wavelet loop does not enter the choice.
C16_AutoWeightsFromSignal ==
    (ppc \in {"wavelet", "done"} /\ spatialDenoiseLevel < 0) =>
        /\ weightRow = NearestRow(signalAverage)
        /\ spatialWeights = WEIGHTS[NearestRow(signalAverage) + 1]

\* lowest signal, highest noise: the row follows the signal
C16_Witness ==
    /\ ppc = "done"
    /\ spatialDenoiseLevel < 0
    /\ signalAverage = 2
    /\ normalisedNoise = 1000
    /\ spatialWeights = <<24, 8, 4, 2>>

\* C17 (as claimed): a level k in 0..5 takes its weights from table row 5 - k,
\* and for every level of at least 0 the row index lies within the table.
C17_LevelSelectsReversedRow ==
    (ppc \in {"wavelet", "done"} /\ spatialDenoiseLevel >= 0) =>
        /\ weightRow # Unset => weightRow \in 0..(Len(WEIGHTS) - 1)
        /\ spatialDenoiseLevel <= 5 =>
              spatialWeights = WEIGHTS[5 - spatialDenoiseLevel + 1]

\* C18 (as claimed): the optical-flow patch is 8 when the reference EV is at
\* least 8 and 16 for every EV below 8, and the stride is half the patch.
C18_PatchSizeByEv ==
    flowPatch # <<>> =>
        /\ flowPatch[1] = (IF referenceEv >= 32 THEN 8 ELSE 16)
        /\ flowPatch[2] * 2 = flowPatch[1]

\* C18 (amended): the optical-flow patch is 8 when the reference EV rounded
\* to the nearest integer is at least 8, that is for EV >= 7.5, and 16 for
\* every EV below 7.5; the stride is half the patch.
C18_PatchSizeByRoundedEv ==
    flowPatch # <<>> =>
        /\ flowPatch[1] = (IF referenceEv >= 30 THEN 8 ELSE 16)
        /\ flowPatch[2] * 2 = flowPatch[1]

\* EV 7.5 already gets the small patch
C18_Witness ==
    /\ referenceEv = 30
    /\ flowPatch = <<8, 4>>

\* C19 (as claimed): the noise measurement behind the threshold vector is
\* always taken with a 16x16 patch.
C19_NoisePatchIs16 ==
    ppc # "measure" => noisePatchSize = 16

\* ======================================================================
\* loadRawImage: edge extension (specification SpecLoad)
\* ======================================================================
\* const int T = pow(2, EXTEND_EDGE_AMOUNT)
T == 2 ^ EXTEND_EDGE_AMOUNT

\* ceil(a / (double) b) for a >= 0, b > 0
Ceil(a, b) == (a + b - 1) \div b

\* mutant: a dimension that already is a multiple of T gets a whole T more
extendOf_ToEven(half) == half % 2
extendOf_AlwaysPads(half) == T - (half % T)

\* static_cast<int>(T * ceil(half / (double) T) - half)
extendOf(half) == T * Ceil(half, T) - half

InitLoad ==
    /\ NearIdle
    /\ JobIdle
    /\ WeightsIdle
    /\ PlanesIdle
    /\ ZipIdle
    /\ ParamsIdle
    /\ sensorWidth \in 0..MaxSensor
    /\ sensorHeight \in 0..MaxSensor
    /\ extendEdges \in BOOLEAN
    /\ extendX = 0
    /\ extendY = 0
    /\ rawBufferSize = <<>>
    /\ deinterleaveOffset = <<>>
    /\ wavelet = <<>>
    /\ outputBufferSize = <<>>
    /\ cropOffset = <<>>
    /\ rawImage = <<>>
    /\ outputWindow = <<>>
    /\ lpc = "call"

\* loadRawImage(rawBuffer, cameraMetadata, extendEdges, scalePreview)
LoadRawImage ==
    /\ lpc = "call"
    /\ LET halfWidth == sensorWidth \div 2
           halfHeight == sensorHeight \div 2
       IN  /\ extendX' = IF extendEdges THEN extendOf(halfWidth) ELSE 0
           /\ extendY' = IF extendEdges THEN extendOf(halfHeight) ELSE 0
           /\ rawBufferSize' = <<halfWidth + extendX', halfHeight + extendY'>>
           /\ deinterleaveOffset' = <<extendX' \div 2, extendY' \div 2>>
    /\ lpc' = "done"
    /\ UNCHANGED <<exceptLoad, sensorWidth, sensorHeight, extendEdges, wavelet,
                   outputBufferSize, cropOffset, rawImage, outputWindow>>

\* createWaveletBuffers(width, height): each level halves the one before
RECURSIVE createWaveletBuffers(_, _, _)
createWaveletBuffers(width, height, level) ==
    IF level >= WAVELET_LEVELS THEN <<>>
    ELSE <<  <<width \div 2, height \div 2>>  >>
         \o createWaveletBuffers(width \div 2, height \div 2, level + 1)

\* denoise on the edge-extended reference: the wavelet buffers for
\* denoiseInput and the outputBuffer(width, height) of the inverse transform
WaveletBuffers ==
    /\ lpc = "done"
    /\ extendEdges
    /\ wavelet' = createWaveletBuffers(rawBufferSize[1], rawBufferSize[2], 0)
    /\ outputBufferSize' = rawBufferSize
    /\ lpc' = "denoised"
    /\ UNCHANGED <<exceptLoad, sensorWidth, sensorHeight, extendEdges, extendX, extendY,
                   rawBufferSize, deinterleaveOffset, cropOffset, rawImage, outputWindow>>

\* process after denoise: the crop offsets, recomputed from the reference's
\* sensor size
CropOffsets ==
    /\ lpc = "denoised"
    /\ LET rawWidth  == sensorWidth \div 2
           rawHeight == sensorHeight \div 2
       IN  cropOffset' = <<T * Ceil(rawWidth, T) - rawWidth,
                           T * Ceil(rawHeight, T) - rawHeight>>
    /\ lpc' = "offsets"
    /\ UNCHANGED <<exceptLoad, sensorWidth, sensorHeight, extendEdges, extendX, extendY,
                   rawBufferSize, deinterleaveOffset, wavelet, outputBufferSize,
                   rawImage, outputWindow>>

\* BuildRawImage: sample of the interleaved image at (fx, fy), as
\* <<channel, rx, ry>>: rows y, y + 1 and columns x, x + 1 of each 2 x 2
\* cell take channels 0, 1 / 2, 3 at (x / 2, y / 2)
outputImage(fx, fy) == <<2 * (fy % 2) + (fx % 2), fx \div 2, fy \div 2>>

\* BuildRawImage(channels, cropX, cropY) for planes of cols x rows: the
\* rectangle (cropX, cropY, width - cropX*2, height - cropY*2) of outputImage
BuildRawImage(cols, rows, cropX, cropY) ==
    LET height == rows * 2
        width  == cols * 2
    IN  [origin |-> <<cropX, cropY>>,
         size   |-> <<width - cropX * 2, height - cropY * 2>>]

\* the sample at (x, y) of the image BuildRawImage returned
RawImageAt(x, y) == outputImage(x + rawImage.origin[1], y + rawImage.origin[2])

\* process, DNG branch: the four denoised planes and the crop offsets
DngRawImage ==
    /\ lpc = "offsets"
    /\ rawImage' = BuildRawImage(outputBufferSize[1], outputBufferSize[2],
                                 cropOffset[1], cropOffset[2])
    /\ lpc' = "dng"
    /\ UNCHANGED <<exceptLoad, sensorWidth, sensorHeight, extendEdges, extendX, extendY,
                   rawBufferSize, deinterleaveOffset, wavelet, outputBufferSize,
                   cropOffset, outputWindow>>

\* postProcess: the output image and the translation of its buffer
PostProcessWindow ==
    /\ lpc \in {"offsets", "dng"}
    /\ LET offsetX == cropOffset[1]
           offsetY == cropOffset[2]
       IN  outputWindow' = [origin |-> <<offsetX, offsetY>>,
                            size   |-> <<(outputBufferSize[1] - offsetX) * 2,
                                         (outputBufferSize[2] - offsetY) * 2>>]
    /\ lpc' = "rendered"
    /\ UNCHANGED <<exceptLoad, sensorWidth, sensorHeight, extendEdges, extendX, extendY,
                   rawBufferSize, deinterleaveOffset, wavelet, outputBufferSize,
                   cropOffset, rawImage>>

NextLoad ==
    \/ LoadRawImage
    \/ WaveletBuffers
    \/ CropOffsets
    \/ DngRawImage
    \/ PostProcessWindow

SpecLoad == InitLoad /\ [][NextLoad]_vars

\* padded size, extension and leading offset of one dimension are as claimed,
\* up to the relation between the leading and the trailing padding
PaddedAsClaimed(sensor, extend, size, offset) ==
    LET half == sensor \div 2
    IN  /\ size = half + extend
        /\ extendEdges =>
              /\ 0 <= extend
              /\ extend < T
              /\ size % T = 0
              /\ size - T < half
        /\ ~extendEdges => (extend = 0 /\ offset = 0)

\* C20 (as claimed): each padded dimension is halfDim + extend with
\* 0 <= extend < T, the smallest multiple of T not below halfDim, and as many
\* padded samples precede the image as follow it; no extension gives extend 0.
C20_SymmetricExtension ==
    lpc = "done" =>
        /\ PaddedAsClaimed(sensorWidth, extendX, rawBufferSize[1], deinterleaveOffset[1])
        /\ PaddedAsClaimed(sensorHeight, extendY, rawBufferSize[2], deinterleaveOffset[2])
        /\ deinterleaveOffset[1] = extendX - deinterleaveOffset[1]
        /\ deinterleaveOffset[2] = extendY - deinterleaveOffset[2]

\* C20 (amended): as claimed, except that floor(extend / 2) padded samples
\* precede the image and the other extend - floor(extend / 2) follow it: the
\* two sides are equal for an even extension and differ by one for an odd one.
C20_FloorHalfExtension ==
    lpc = "done" =>
        /\ PaddedAsClaimed(sensorWidth, extendX, rawBufferSize[1], deinterleaveOffset[1])
        /\ PaddedAsClaimed(sensorHeight, extendY, rawBufferSize[2], deinterleaveOffset[2])
        /\ \A d \in {<<extendX, deinterleaveOffset[1]>>, <<extendY, deinterleaveOffset[2]>>} :
              LET before == d[2]
                  after == d[1] - d[2]
              IN  /\ 2 * before <= d[1]
                  /\ d[1] < 2 * before + 2
                  /\ after - before \in {0, 1}
                  /\ (d[1] % 2 = 0) => before = after

\* half width 31: extension 33, 16 samples before and 17 after
C20_Witness ==
    /\ lpc = "done"
    /\ extendEdges
    /\ sensorWidth = 62
    /\ extendX = 33
    /\ rawBufferSize[1] = 64
    /\ deinterleaveOffset[1] = 16

\* ---------------------------------------------------------------------
\* C21: for the padded channel dimensions (W, H) of the loader,
\* createWaveletBuffers yields WAVELET_LEVELS levels, level i (from 0) has
\* dimensions (W / 2^(i+1), H / 2^(i+1)), no halving truncates (doubling
\* back from any level reproduces (W, H)), and the outputBuffer of the
\* inverse transform has exactly the padded size.
C21_WaveletDimensions ==
    lpc = "denoised" =>
        LET W == rawBufferSize[1]
            H == rawBufferSize[2]
        IN  /\ Len(wavelet) = WAVELET_LEVELS
            /\ \A i \in 1..Len(wavelet) :
                   /\ wavelet[i][1] * (2 ^ i) = W
                   /\ wavelet[i][2] * (2 ^ i) = H
            /\ outputBufferSize = <<W, H>>
            /\ outputBufferSize = <<2 * wavelet[1][1], 2 * wavelet[1][2]>>

\* a 62 x 130 sensor: planes of 31 x 65 padded to 64 x 128
C21_Witness ==
    /\ lpc = "denoised"
    /\ sensorWidth = 62
    /\ sensorHeight = 130
    /\ wavelet = << <<32, 64>>, <<16, 32>>, <<8, 16>>, <<4, 8>> >>
    /\ outputBufferSize = <<64, 128>>


\* the full-resolution area of the padded mosaic that holds the sensor's
\* samples: the planes' leading padding and half size, doubled
SensorAreaFrom == <<2 * deinterleaveOffset[1], 2 * deinterleaveOffset[2]>>
SensorAreaSize == <<2 * (sensorWidth \div 2), 2 * (sensorHeight \div 2)>>

InSensorArea(fx, fy) ==
    /\ fx >= SensorAreaFrom[1]
    /\ fx < SensorAreaFrom[1] + SensorAreaSize[1]
    /\ fy >= SensorAreaFrom[2]
    /\ fy < SensorAreaFrom[2] + SensorAreaSize[2]

\* ---------------------------------------------------------------------
\* C22: the rendered output is 2*floor(w/2) by 2*floor(h/2), its window
\* starts at the full-resolution offset of the left/top padding the loader
\* inserted, and every output pixel lies in the sensor area, none in the
\* padding, odd extension amounts included.
C22_WindowIsSensorArea ==
    lpc = "rendered" =>
        /\ outputWindow.size = SensorAreaSize
        /\ outputWindow.origin = SensorAreaFrom
        /\ \A x \in 0..(outputWindow.size[1] - 1), y \in 0..(outputWindow.size[2] - 1) :
               InSensorArea(outputWindow.origin[1] + x, outputWindow.origin[2] + y)

\* ---------------------------------------------------------------------
\* C23: the image BuildRawImage returns to process has the sensor's
\* dimensions, pixel (x, y) is the sample of channel 2*(y mod 2) + (x mod 2)
\* at the un-padded half-resolution position (x / 2, y / 2), so pixel (0, 0)
\* comes from channel 0 for every crop offset, and no padding sample is in it.
C23_MosaicPreserved ==
    lpc = "dng" =>
        /\ rawImage.size = SensorAreaSize
        /\ \A x \in 0..(rawImage.size[1] - 1), y \in 0..(rawImage.size[2] - 1) :
               /\ RawImageAt(x, y) = <<2 * (y % 2) + (x % 2),
                                       deinterleaveOffset[1] + x \div 2,
                                       deinterleaveOffset[2] + y \div 2>>
               /\ InSensorArea(x + rawImage.origin[1], y + rawImage.origin[2])

\* the values handed to onProgressUpdate so far, in order
ProgressCalls == SelectSeq(calls, LAMBDA c : c[1] = "onProgressUpdate")
ProgressValues == [i \in 1..Len(ProgressCalls) |-> ProgressCalls[i][2]]

\* the job ran to the end of process: the output was saved
Completed == pc = "returned" /\ "output" \in files

InitNearest ==
    /\ JobIdle
    /\ WeightsIdle
    /\ PlanesIdle
    /\ ZipIdle
    /\ ParamsIdle
    /\ LoadIdle
    /\ orderedFrames \in 1..MaxOrdered
    /\ startIdx \in 0..(orderedFrames - 1)
    /\ numBuffers \in 0..MaxBuffers
    /\ leftOffset = 0 - 1
    /\ rightOffset = 1
    /\ outNearestBuffers = <<>>
    /\ npc = "loop"

\* container->loadFrame(...) of the frame at index, pushed whether or not it
\* loaded
nearestEntry(index, ok) == <<index, IF ok THEN "buffer" ELSE "null">>

\* one pass of the while(true) loop
NearestPass ==
    /\ npc = "loop"
    /\ IF Len(outNearestBuffers) >= numBuffers
       THEN /\ npc' = "done"
            /\ UNCHANGED <<leftOffset, rightOffset, outNearestBuffers>>
       ELSE LET hasLeft  == startIdx + leftOffset >= 0
                hasRight == startIdx + rightOffset < orderedFrames
            IN  \E leftOk, rightOk \in BOOLEAN :
                  /\ outNearestBuffers' =
                        outNearestBuffers
                        \o (IF hasLeft
                            THEN <<nearestEntry(startIdx + leftOffset, leftOk)>>
                            ELSE <<>>)
                        \o (IF hasRight
                            THEN <<nearestEntry(startIdx + rightOffset, rightOk)>>
                            ELSE <<>>)
                  /\ leftOffset' = IF hasLeft THEN leftOffset - 1 ELSE leftOffset
                  /\ rightOffset' = IF hasRight THEN rightOffset + 1 ELSE rightOffset
                  /\ npc' = IF \/ Len(outNearestBuffers') >= numBuffers
                               \/ /\ startIdx + leftOffset' < 0
                                  /\ startIdx + rightOffset' >= orderedFrames
                            THEN "done"
                            ELSE "loop"
    /\ UNCHANGED <<exceptNear, orderedFrames, startIdx, numBuffers>>

NextNearest == NearestPass
SpecNearest == InitNearest /\ [][NextNearest]_vars

\* the indices of the entries returned, and distance in index from startIdx
NearestIndices == [i \in 1..Len(outNearestBuffers) |-> outNearestBuffers[i][1]]
Distance(i) == IF i >= startIdx THEN i - startIdx ELSE startIdx - i

\* ---------------------------------------------------------------------
\* C25: for N ordered frames, startIdx in 0..N-1 and numBuffers >= 0,
\* GetNearestBuffers returns exactly min(numBuffers, N - 1) entries, never
\* more than numBuffers: the frames closest in index to startIdx by
\* increasing distance, each once and never the frame at startIdx.
C25_ExactlyNumBuffers ==
    npc = "done" =>
        LET idx == NearestIndices
        IN  /\ Len(idx) = Min2(numBuffers, orderedFrames - 1)
            /\ Len(idx) <= numBuffers
            /\ \A i \in 1..Len(idx) :
                   /\ idx[i] \in 0..(orderedFrames - 1)
                   /\ idx[i] # startIdx
            /\ \A i, j \in 1..Len(idx) :
                   i < j => (idx[i] # idx[j] /\ Distance(idx[i]) <= Distance(idx[j]))
            /\ \A k \in 0..(orderedFrames - 1) :
                   (k # startIdx /\ k \notin Range(idx)) =>
                       \A i \in 1..Len(idx) : Distance(idx[i]) <= Distance(k)

====
